---- MODULE Spec2Model ----
(***************************************************************************)
(* Model of src/actix.rs: the XUserInfo<T> extractor.  A request's         *)
(* x-userinfo header is looked up, read as text, base64-decoded (standard  *)
(* alphabet, canonical padding) and JSON-deserialized into T; any failure  *)
(* is an XUserInfoError that renders as a 400 text/plain response.         *)
(*                                                                         *)
(* Bytes are integers 0..255, byte strings are sequences of them.  T is    *)
(* the test module's CustomXUserInfo { sub: String, name: String,          *)
(* iat: u64 }, a record [sub, name, iat] whose strings are UTF-8 byte      *)
(* strings.                                                                *)
(***************************************************************************)
EXTENDS Integers, Sequences, FiniteSets, TLC

VARIABLES
    sent,        \* pipeline: how the client built the request, and from which value
    request,     \* pipeline: the request's header lines, <<name, value>> pairs as sent
    pc,          \* pipeline: position inside try_from / the response mapping
    header,      \* pipeline: the located header value (bytes), once found
    text,        \* pipeline: the header value as text, once validated
    decoded,     \* pipeline: the base64-decoded bytes, once decoded
    attempted,   \* pipeline: the stages try_from has run, in order
    outcome,     \* pipeline: Result<XUserInfo<T>, XUserInfoError>, once returned
    response,    \* pipeline: the HttpResponse error_response built, if any
    payload,     \* pipeline: the payload argument from_request was given, if called
    future,      \* pipeline: the future from_request returned, if called
    polled,      \* pipeline: what each poll of that future yielded
    reqs,        \* server: the header lines of each request being handled
    results,     \* server: per request, the results its extractions returned so far
    bound        \* server: per request, the future of the latest from_request call

pipelineVars == <<sent, request, pc, header, text, decoded, attempted, outcome, response,
                  payload, future, polled>>
serverVars == <<reqs, results, bound>>
vars == <<pipelineVars, serverVars>>

(***************************************************************************)
(* Byte strings                                                            *)
(***************************************************************************)
\* The printable ASCII characters 32..126 in order.  A string literal cannot hold
\* a backquote (96): a second space stands in its place and is never looked up.
Printable == " !\"#$%&'()*+,-./0123456789:;<=>?@ABCDEFGHIJKLMNOPQRSTUVWXYZ[\\]^_ abcdefghijklmnopqrstuvwxyz{|}~"

\* The byte of a one-character printable ASCII string.
Ord(c) ==
    31 + CHOOSE i \in 1..Len(Printable) :
            /\ SubSeq(Printable, i, i) = c
            /\ \A j \in 1..(i - 1) : SubSeq(Printable, j, j) # c

\* The bytes of a printable ASCII string literal.
Bytes(s) == [i \in 1..Len(s) |-> Ord(SubSeq(s, i, i))]

RECURSIVE Concat(_)
Concat(ss) == IF ss = <<>> THEN <<>> ELSE Head(ss) \o Concat(Tail(ss))

Ok(v) == [ok |-> TRUE, val |-> v]
Fail(detail) == [ok |-> FALSE, err |-> detail]

None == <<>>
Some(v) == <<v>>

(***************************************************************************)
(* Header names and the header map                                         *)
(***************************************************************************)
\* crate::X_USER_INFO_HEADER
X_USER_INFO_HEADER == "x-userinfo"

\* HeaderName parsing folds ASCII upper case to lower case.
LowerByte(b) == IF b >= 65 /\ b <= 90 THEN b + 32 ELSE b
HeaderName(s) == [i \in 1..Len(s) |-> LowerByte(Ord(SubSeq(s, i, i)))]

\* A lookup that passes over a header stored with an empty value.
RECURSIVE HeaderMapGetNonEmpty(_, _)
HeaderMapGetNonEmpty(lines, name) ==
    IF lines = <<>> THEN [some |-> FALSE]
    ELSE IF HeaderName(Head(lines)[1]) = HeaderName(name) /\ Head(lines)[2] # <<>>
         THEN [some |-> TRUE, val |-> Head(lines)[2]]
         ELSE HeaderMapGetNonEmpty(Tail(lines), name)

\* A lookup that takes the first header line, whatever its name.
HeaderMapFirst(lines, name) ==
    IF lines = <<>> THEN [some |-> FALSE]
    ELSE [some |-> TRUE, val |-> Head(lines)[2]]

\* req.headers().get(name): the first value stored under the name, if any.
RECURSIVE HeaderMapGet(_, _)
HeaderMapGet(lines, name) ==
    IF lines = <<>> THEN [some |-> FALSE]
    ELSE IF HeaderName(Head(lines)[1]) = HeaderName(name)
         THEN [some |-> TRUE, val |-> Head(lines)[2]]
         ELSE HeaderMapGet(Tail(lines), name)

(***************************************************************************)
(* HeaderValue                                                             *)
(***************************************************************************)
\* HeaderValue::from_bytes accepts a byte b iff b >= 32 && b != 127 || b == '\t'.
IsValidHeaderValue(bs) ==
    \A i \in 1..Len(bs) : (bs[i] >= 32 /\ bs[i] # 127 /\ bs[i] <= 255) \/ bs[i] = 9

\* HeaderValue::to_str: every byte must be visible ASCII (32..126) or a tab.
IsVisibleAscii(b) == (b >= 32 /\ b < 127) \/ b = 9

\* HeaderValue::as_bytes, in a Result: no check of the bytes.
as_bytes(hv) == Ok(hv)

to_str(hv) ==
    IF \A i \in 1..Len(hv) : IsVisibleAscii(hv[i])
    THEN Ok(hv)
    ELSE Fail("failed to convert header to a str")

(***************************************************************************)
(* base64: BASE64_STANDARD (standard alphabet, '=' padding written on      *)
(* encode and required, canonical, on decode; trailing bits must be zero)  *)
(***************************************************************************)
StandardAlphabet == Bytes("ABCDEFGHIJKLMNOPQRSTUVWXYZabcdefghijklmnopqrstuvwxyz0123456789+/")
UrlSafeAlphabet == Bytes("ABCDEFGHIJKLMNOPQRSTUVWXYZabcdefghijklmnopqrstuvwxyz0123456789-_")
PadByte == Ord("=")

\* The 6-bit value of a symbol in the standard alphabet, or -1 (INVALID_VALUE).
\* A decode table that knows the URL-safe symbols as well.
DecodeTableLenient(b) ==
    IF b >= 65 /\ b <= 90 THEN b - 65
    ELSE IF b >= 97 /\ b <= 122 THEN b - 71
    ELSE IF b >= 48 /\ b <= 57 THEN b + 4
    ELSE IF b = 43 \/ b = 45 THEN 62
    ELSE IF b = 47 \/ b = 95 THEN 63
    ELSE -1

DecodeTable(b) ==
    IF b >= 65 /\ b <= 90 THEN b - 65
    ELSE IF b >= 97 /\ b <= 122 THEN b - 71
    ELSE IF b >= 48 /\ b <= 57 THEN b + 4
    ELSE IF b = 43 THEN 62
    ELSE IF b = 47 THEN 63
    ELSE -1

\* Engine::encode with a given alphabet, padded or not.
RECURSIVE EncodeWith(_, _, _)
EncodeWith(bs, alphabet, pad) ==
    IF Len(bs) = 0 THEN <<>>
    ELSE IF Len(bs) = 1 THEN
        <<alphabet[(bs[1] \div 4) + 1], alphabet[((bs[1] % 4) * 16) + 1]>>
        \o (IF pad THEN <<PadByte, PadByte>> ELSE <<>>)
    ELSE IF Len(bs) = 2 THEN
        <<alphabet[(bs[1] \div 4) + 1],
          alphabet[((bs[1] % 4) * 16 + (bs[2] \div 16)) + 1],
          alphabet[((bs[2] % 16) * 4) + 1]>>
        \o (IF pad THEN <<PadByte>> ELSE <<>>)
    ELSE
        <<alphabet[(bs[1] \div 4) + 1],
          alphabet[((bs[1] % 4) * 16 + (bs[2] \div 16)) + 1],
          alphabet[((bs[2] % 16) * 4 + (bs[3] \div 64)) + 1],
          alphabet[(bs[3] % 64) + 1]>>
        \o EncodeWith(SubSeq(bs, 4, Len(bs)), alphabet, pad)

\* BASE64_STANDARD.encode
BASE64_STANDARD_encode(bs) == EncodeWith(bs, StandardAlphabet, TRUE)

\* The bytes of complete quads: every symbol is valid here.
RECURSIVE DecodeQuads(_, _, _)
DecodeQuads(s, from, to) ==
    IF from > to THEN <<>>
    ELSE LET a == DecodeTable(s[from])
             b == DecodeTable(s[from + 1])
             c == DecodeTable(s[from + 2])
             d == DecodeTable(s[from + 3])
         IN  <<a * 4 + (b \div 16), (b % 16) * 16 + (c \div 4), (c % 4) * 64 + d>>
             \o DecodeQuads(s, from + 4, to)

\* decode_suffix's scan of the last (up to four) symbols, left to right.
\* st: [i, pads, firstPad, morsels, last, err]
RECURSIVE SuffixScan(_, _, _)
SuffixScan(s, start, st) ==
    IF st.err # "none" \/ start + st.i > Len(s) THEN st
    ELSE LET b == s[start + st.i]
             at == start + st.i - 1   \* 0-based offset, as the crate reports it
         IN  IF b = PadByte THEN
                 IF st.i < 2
                 THEN [st EXCEPT !.err = "InvalidByte",
                                 !.at = IF st.pads > 0 THEN st.firstPad ELSE at,
                                 !.byte = b]
                 ELSE SuffixScan(s, start,
                         [st EXCEPT !.i = st.i + 1,
                                    !.firstPad = IF st.pads = 0 THEN at ELSE st.firstPad,
                                    !.pads = st.pads + 1])
             ELSE IF st.pads > 0
                  THEN [st EXCEPT !.err = "InvalidByte", !.at = st.firstPad, !.byte = PadByte]
             ELSE IF DecodeTable(b) = -1
                  THEN [st EXCEPT !.err = "InvalidByte", !.at = at, !.byte = b]
             ELSE SuffixScan(s, start,
                     [st EXCEPT !.i = st.i + 1,
                                !.morsels = Append(st.morsels, DecodeTable(b)),
                                !.last = b])

\* decode_suffix after its scan st: length, padding and trailing-bit checks,
\* then the last one to three bytes.
DecodeSuffix(s, start, st) ==
    LET m == st.morsels
        k == Len(m)
        bulk == DecodeQuads(s, 1, start - 4)
    IN  IF st.err # "none" THEN Fail(<<st.err, st.at, st.byte>>)
        ELSE IF Len(s) > 0 /\ k < 2 THEN Fail(<<"InvalidLength", start - 1 + k>>)
        ELSE IF (st.pads + k) % 4 # 0 THEN Fail(<<"InvalidPadding">>)
        ELSE IF k = 2 /\ m[2] % 16 # 0 THEN Fail(<<"InvalidLastSymbol", start + k - 2, st.last>>)
        ELSE IF k = 3 /\ m[3] % 4 # 0 THEN Fail(<<"InvalidLastSymbol", start + k - 2, st.last>>)
        ELSE IF k = 0 THEN Ok(bulk)
        ELSE IF k = 2 THEN Ok(bulk \o <<m[1] * 4 + (m[2] \div 16)>>)
        ELSE IF k = 3 THEN
            Ok(bulk \o <<m[1] * 4 + (m[2] \div 16), (m[2] % 16) * 16 + (m[3] \div 4)>>)
        ELSE Ok(bulk \o <<m[1] * 4 + (m[2] \div 16), (m[2] % 16) * 16 + (m[3] \div 4),
                          (m[3] % 4) * 64 + m[4]>>)

\* BASE64_STANDARD.decode: the complete quads before the last (up to four)
\* symbols hold alphabet symbols only; the suffix may end in padding.
BASE64_STANDARD_decode(s) ==
    LET n == Len(s)
        start == IF n = 0 THEN 1 ELSE ((n - 1) \div 4) * 4 + 1
        bad == {i \in 1..(start - 1) : DecodeTable(s[i]) = -1}
        first == CHOOSE i \in bad : \A j \in bad : i <= j
    IN  IF bad # {} THEN Fail(<<"InvalidByte", first - 1, s[first]>>)
        ELSE DecodeSuffix(s, start,
                 SuffixScan(s, start,
                     [i |-> 0, pads |-> 0, firstPad |-> 0, morsels |-> <<>>, last |-> 0,
                      err |-> "none", at |-> 0, byte |-> 0]))

(***************************************************************************)
(* u64.  TLC's integers are 32 bits wide, so a u64 is kept as three limbs  *)
(* <<hi, mid, lo>> in base 10^8, standing for hi * 10^16 + mid * 10^8 + lo.*)
(***************************************************************************)
LimbDigits == 8
LimbBase == 100000000

\* u64::MAX = 18446744073709551615
U64_MAX == <<1844, 67440737, 9551615>>

U64(n) == <<0, n \div LimbBase, n % LimbBase>>

\* a <= b for limb triples
LimbsLeq(a, b) ==
    \/ a[1] < b[1]
    \/ a[1] = b[1] /\ a[2] < b[2]
    \/ a[1] = b[1] /\ a[2] = b[2] /\ a[3] <= b[3]

\* The range of an i64 field.
IsI64(v) == LimbsLeq(v, <<922, 33720368, 54775807>>)

IsU64(v) == LimbsLeq(v, U64_MAX)

\* v * 10 + d, for v <= u64::MAX (the result may exceed u64::MAX).
MulAdd10(v, d) ==
    LET lo == v[3] * 10 + d
        mid == v[2] * 10 + (lo \div LimbBase)
    IN  <<v[1] * 10 + (mid \div LimbBase), mid % LimbBase, lo % LimbBase>>

(***************************************************************************)
(* UTF-8                                                                   *)
(***************************************************************************)
IsCont(bs, i) == i <= Len(bs) /\ bs[i] >= 128 /\ bs[i] <= 191

\* core::str::from_utf8 accepts bs[i..]: well-formed UTF-8 only (no overlong
\* forms, no surrogates, nothing above U+10FFFF).
RECURSIVE IsUtf8From(_, _)
IsUtf8From(bs, i) ==
    IF i > Len(bs) THEN TRUE
    ELSE LET b == bs[i]
             n == IF i < Len(bs) THEN bs[i + 1] ELSE -1
         IN  IF b < 128 THEN IsUtf8From(bs, i + 1)
             ELSE IF b >= 194 /\ b <= 223 THEN
                 IsCont(bs, i + 1) /\ IsUtf8From(bs, i + 2)
             ELSE IF b >= 224 /\ b <= 239 THEN
                 /\ IsCont(bs, i + 1) /\ IsCont(bs, i + 2)
                 /\ (b = 224 => n >= 160)
                 /\ (b = 237 => n <= 159)
                 /\ IsUtf8From(bs, i + 3)
             ELSE IF b >= 240 /\ b <= 244 THEN
                 /\ IsCont(bs, i + 1) /\ IsCont(bs, i + 2) /\ IsCont(bs, i + 3)
                 /\ (b = 240 => n >= 144)
                 /\ (b = 244 => n <= 143)
                 /\ IsUtf8From(bs, i + 4)
             ELSE FALSE

IsUtf8(bs) == IsUtf8From(bs, 1)

\* char::encode_utf8 of a code point.
EncodeUtf8(c) ==
    IF c < 128 THEN <<c>>
    ELSE IF c < 2048 THEN <<192 + (c \div 64), 128 + (c % 64)>>
    ELSE IF c < 65536 THEN
        <<224 + (c \div 4096), 128 + ((c \div 64) % 64), 128 + (c % 64)>>
    ELSE <<240 + (c \div 262144), 128 + ((c \div 4096) % 64),
           128 + ((c \div 64) % 64), 128 + (c % 64)>>

(***************************************************************************)
(* serde_json: serialization (the encoding side of the round trip)         *)
(***************************************************************************)
HexDigits == Bytes("0123456789abcdef")

RECURSIVE Itoa(_)
Itoa(n) == IF n < 10 THEN <<48 + n>> ELSE Itoa(n \div 10) \o <<48 + (n % 10)>>

\* The decimal digits of a limb below the first one: all eight of them.
RECURSIVE ItoaPadded(_, _)
ItoaPadded(n, width) ==
    IF width = 0 THEN <<>> ELSE ItoaPadded(n \div 10, width - 1) \o <<48 + (n % 10)>>

\* itoa of a u64.
ItoaU64(v) ==
    IF v[1] > 0 THEN Itoa(v[1]) \o ItoaPadded(v[2], LimbDigits) \o ItoaPadded(v[3], LimbDigits)
    ELSE IF v[2] > 0 THEN Itoa(v[2]) \o ItoaPadded(v[3], LimbDigits)
    ELSE Itoa(v[3])

\* format_escaped_str_contents: '"', '\\' and the control characters are
\* escaped, every other byte is written as it is.
EscapeByte(b) ==
    IF b = 34 THEN Bytes("\\\"")
    ELSE IF b = 92 THEN Bytes("\\\\")
    ELSE IF b = 8 THEN Bytes("\\b")
    ELSE IF b = 9 THEN Bytes("\\t")
    ELSE IF b = 10 THEN Bytes("\\n")
    ELSE IF b = 12 THEN Bytes("\\f")
    ELSE IF b = 13 THEN Bytes("\\r")
    ELSE IF b < 32 THEN Bytes("\\u00") \o <<HexDigits[(b \div 16) + 1], HexDigits[(b % 16) + 1]>>
    ELSE <<b>>

RECURSIVE EscapeContents(_)
EscapeContents(str) ==
    IF str = <<>> THEN <<>> ELSE EscapeByte(Head(str)) \o EscapeContents(Tail(str))

JsonString(str) == <<34>> \o EscapeContents(str) \o <<34>>

\* serde_json::to_string(&v) for v: CustomXUserInfo (fields in declaration order).
to_string_T(v) ==
    Concat(<<Bytes("{\"sub\":"), JsonString(v.sub), Bytes(",\"name\":"), JsonString(v.name),
             Bytes(",\"iat\":"), ItoaU64(v.iat), Bytes("}")>>)

\* json!({...}).to_string(): a serde_json::Value object writes its keys sorted.
to_string_Value(v) ==
    Concat(<<Bytes("{\"iat\":"), ItoaU64(v.iat), Bytes(",\"name\":"), JsonString(v.name),
             Bytes(",\"sub\":"), JsonString(v.sub), Bytes("}")>>)

(***************************************************************************)
(* serde_json: deserialization.  A parser step takes the input and the     *)
(* index of the next unread byte and yields [ok, pos, val] or [ok, code].  *)
(***************************************************************************)
POk(pos, v) == [ok |-> TRUE, pos |-> pos, val |-> v]
PErr(code) == [ok |-> FALSE, code |-> code]

Peek(bs, i) == IF i > Len(bs) THEN -1 ELSE bs[i]
IsDigit(b) == b >= 48 /\ b <= 57
IsWs(b) == b = 32 \/ b = 10 \/ b = 9 \/ b = 13

\* parse_whitespace: the index of the first non-whitespace byte at or after i.
RECURSIVE SkipWs(_, _)
SkipWs(bs, i) == IF i <= Len(bs) /\ IsWs(bs[i]) THEN SkipWs(bs, i + 1) ELSE i

RECURSIVE SkipDigits(_, _)
SkipDigits(bs, i) == IF IsDigit(Peek(bs, i)) THEN SkipDigits(bs, i + 1) ELSE i

HexVal(b) ==
    IF IsDigit(b) THEN b - 48
    ELSE IF b >= 97 /\ b <= 102 THEN b - 87
    ELSE IF b >= 65 /\ b <= 70 THEN b - 55
    ELSE -1

\* decode_hex_escape: four hex digits at i.
DecodeHexEscape(bs, i) ==
    IF i + 3 > Len(bs) THEN PErr("EofWhileParsingString")
    ELSE IF \E k \in 0..3 : HexVal(bs[i + k]) = -1 THEN PErr("InvalidEscape")
    ELSE POk(i + 4, HexVal(bs[i]) * 4096 + HexVal(bs[i + 1]) * 256
                    + HexVal(bs[i + 2]) * 16 + HexVal(bs[i + 3]))

\* The low half of a surrogate pair, h2, after the high half h1.
SurrogatePair(h1, h2) ==
    IF ~h2.ok THEN h2
    ELSE IF h2.val < 56320 \/ h2.val > 57343 THEN PErr("LoneLeadingSurrogateInHexEscape")
    ELSE POk(h2.pos, EncodeUtf8((h1.val - 55296) * 1024 + (h2.val - 56320) + 65536))

\* A \u escape whose four hex digits are h1.
UnicodeEscape(bs, h1) ==
    IF ~h1.ok THEN h1
    ELSE IF h1.val >= 56320 /\ h1.val <= 57343 THEN PErr("LoneLeadingSurrogateInHexEscape")
    ELSE IF h1.val >= 55296 /\ h1.val <= 56319 THEN
        IF Peek(bs, h1.pos) = -1 THEN PErr("EofWhileParsingString")
        ELSE IF Peek(bs, h1.pos) # 92 THEN PErr("UnexpectedEndOfHexEscape")
        ELSE IF Peek(bs, h1.pos + 1) = -1 THEN PErr("EofWhileParsingString")
        ELSE IF Peek(bs, h1.pos + 1) # 117 THEN PErr("UnexpectedEndOfHexEscape")
        ELSE SurrogatePair(h1, DecodeHexEscape(bs, h1.pos + 2))
    ELSE POk(h1.pos, EncodeUtf8(h1.val))

\* parse_escape (validating): i is the byte after the backslash.
ParseEscape(bs, i) ==
    LET c == Peek(bs, i)
    IN  IF c = -1 THEN PErr("EofWhileParsingString")
        ELSE IF c = 34 \/ c = 92 \/ c = 47 THEN POk(i + 1, <<c>>)
        ELSE IF c = 98 THEN POk(i + 1, <<8>>)
        ELSE IF c = 102 THEN POk(i + 1, <<12>>)
        ELSE IF c = 110 THEN POk(i + 1, <<10>>)
        ELSE IF c = 114 THEN POk(i + 1, <<13>>)
        ELSE IF c = 116 THEN POk(i + 1, <<9>>)
        ELSE IF c = 117 THEN UnicodeEscape(bs, DecodeHexEscape(bs, i + 1))
        ELSE PErr("InvalidEscape")

\* parse_str_bytes: i is the byte after the opening quote; acc is the scratch.
RECURSIVE ParseStrBytes(_, _, _)
RECURSIVE StrAfterEscape(_, _, _)
ParseStrBytes(bs, i, acc) ==
    LET c == Peek(bs, i)
    IN  IF c = -1 THEN PErr("EofWhileParsingString")
        ELSE IF c = 34 THEN POk(i + 1, acc)
        ELSE IF c = 92 THEN StrAfterEscape(bs, acc, ParseEscape(bs, i + 1))
        ELSE IF c < 32 THEN PErr("ControlCharacterWhileParsingString")
        ELSE ParseStrBytes(bs, i + 1, Append(acc, c))

StrAfterEscape(bs, acc, e) == IF e.ok THEN ParseStrBytes(bs, e.pos, acc \o e.val) ELSE e

\* as_str: the string's bytes must be UTF-8.
AsStr(r) == IF r.ok /\ ~IsUtf8(r.val) THEN PErr("InvalidUnicodeCodePoint") ELSE r

\* parse_str
ParseStr(bs, i) == AsStr(ParseStrBytes(bs, i, <<>>))

\* ignore_str: escapes are checked, the bytes are not.
RECURSIVE IgnoreStr(_, _)
RECURSIVE IgnoreStrAfterHex(_, _)
IgnoreStr(bs, i) ==
    LET c == Peek(bs, i)
        e == Peek(bs, i + 1)
    IN  IF c = -1 THEN PErr("EofWhileParsingString")
        ELSE IF c = 34 THEN POk(i + 1, <<>>)
        ELSE IF c = 92 THEN
            IF e = -1 THEN PErr("EofWhileParsingString")
            ELSE IF e \in {34, 92, 47, 98, 102, 110, 114, 116} THEN IgnoreStr(bs, i + 2)
            ELSE IF e = 117 THEN IgnoreStrAfterHex(bs, DecodeHexEscape(bs, i + 2))
            ELSE PErr("InvalidEscape")
        ELSE IF c < 32 THEN PErr("ControlCharacterWhileParsingString")
        ELSE IgnoreStr(bs, i + 1)

IgnoreStrAfterHex(bs, h) == IF h.ok THEN IgnoreStr(bs, h.pos) ELSE h

\* parse_ident: the rest of null / true / false.
ParseIdent(bs, i, rest) ==
    IF \E k \in 1..Len(rest) : Peek(bs, i + k - 1) = -1 THEN PErr("EofWhileParsingValue")
    ELSE IF \E k \in 1..Len(rest) : bs[i + k - 1] # rest[k] THEN PErr("ExpectedSomeIdent")
    ELSE POk(i + Len(rest), <<>>)

Ull == Bytes("ull")
Rue == Bytes("rue")
Alse == Bytes("alse")

\* ignore_exponent: i is the byte after 'e' / 'E'.
IgnoreExponent(bs, i) ==
    LET j == IF Peek(bs, i) = 43 \/ Peek(bs, i) = 45 THEN i + 1 ELSE i
    IN  IF IsDigit(Peek(bs, j)) THEN POk(SkipDigits(bs, j), <<>>) ELSE PErr("InvalidNumber")

\* ignore_decimal: j is the '.'.
IgnoreDecimal(bs, j) ==
    LET k == SkipDigits(bs, j + 1)
    IN  IF ~IsDigit(Peek(bs, j + 1)) THEN PErr("InvalidNumber")
        ELSE IF Peek(bs, k) = 101 \/ Peek(bs, k) = 69 THEN IgnoreExponent(bs, k + 1)
        ELSE POk(k, <<>>)

\* ignore_integer (after an optional '-'), with its fraction and exponent.
IgnoreInteger(bs, i) ==
    LET c == Peek(bs, i)
        j == IF c = 48 THEN i + 1 ELSE SkipDigits(bs, i)
    IN  IF c = 48 /\ IsDigit(Peek(bs, i + 1)) THEN PErr("InvalidNumber")
        ELSE IF ~IsDigit(c) THEN PErr("InvalidNumber")
        ELSE IF Peek(bs, j) = 46 THEN IgnoreDecimal(bs, j)
        ELSE IF Peek(bs, j) = 101 \/ Peek(bs, j) = 69 THEN IgnoreExponent(bs, j + 1)
        ELSE POk(j, <<>>)

\* ignore_value: any JSON value is skipped, checked for syntax only.
RECURSIVE IgnoreValue(_, _)
RECURSIVE IgnoreElements(_, _, _)
RECURSIVE IgnoreElementsAfter(_, _)
RECURSIVE IgnoreMembers(_, _, _)
RECURSIVE IgnoreMembersAfter(_, _)
RECURSIVE IgnoreMember(_, _)
RECURSIVE IgnoreMemberValue(_, _)
IgnoreValue(bs, i) ==
    LET j == SkipWs(bs, i)
        c == Peek(bs, j)
    IN  IF c = -1 THEN PErr("EofWhileParsingValue")
        ELSE IF c = 110 THEN ParseIdent(bs, j + 1, Ull)
        ELSE IF c = 116 THEN ParseIdent(bs, j + 1, Rue)
        ELSE IF c = 102 THEN ParseIdent(bs, j + 1, Alse)
        ELSE IF c = 45 THEN IgnoreInteger(bs, j + 1)
        ELSE IF IsDigit(c) THEN IgnoreInteger(bs, j)
        ELSE IF c = 34 THEN IgnoreStr(bs, j + 1)
        ELSE IF c = 91 THEN IgnoreElements(bs, j + 1, TRUE)
        ELSE IF c = 123 THEN IgnoreMembers(bs, j + 1, TRUE)
        ELSE PErr("ExpectedSomeValue")

\* The rest of an array: first is TRUE until an element has been read.
IgnoreElements(bs, i, first) ==
    LET j == SkipWs(bs, i)
        c == Peek(bs, j)
    IN  IF c = -1 THEN PErr("EofWhileParsingList")
        ELSE IF c = 93 THEN POk(j + 1, <<>>)
        ELSE IF first THEN IgnoreElementsAfter(bs, IgnoreValue(bs, j))
        ELSE IF c = 44 THEN IgnoreElementsAfter(bs, IgnoreValue(bs, j + 1))
        ELSE PErr("ExpectedListCommaOrEnd")

IgnoreElementsAfter(bs, v) == IF v.ok THEN IgnoreElements(bs, v.pos, FALSE) ELSE v

\* One "key": value member at j (whitespace skipped).
IgnoreMember(bs, j) ==
    LET c == Peek(bs, j)
    IN  IF c = -1 THEN PErr("EofWhileParsingObject")
        ELSE IF c # 34 THEN PErr("KeyMustBeAString")
        ELSE IgnoreMemberValue(bs, IgnoreStr(bs, j + 1))

\* The colon and the value after a member's key k.
IgnoreMemberValue(bs, k) ==
    IF ~k.ok THEN k
    ELSE IF Peek(bs, SkipWs(bs, k.pos)) = -1 THEN PErr("EofWhileParsingObject")
    ELSE IF Peek(bs, SkipWs(bs, k.pos)) # 58 THEN PErr("ExpectedColon")
    ELSE IgnoreValue(bs, SkipWs(bs, k.pos) + 1)

IgnoreMembers(bs, i, first) ==
    LET j == SkipWs(bs, i)
        c == Peek(bs, j)
    IN  IF c = -1 THEN PErr("EofWhileParsingObject")
        ELSE IF c = 125 THEN POk(j + 1, <<>>)
        ELSE IF first THEN IgnoreMembersAfter(bs, IgnoreMember(bs, j))
        ELSE IF c = 44 THEN IgnoreMembersAfter(bs, IgnoreMember(bs, SkipWs(bs, j + 1)))
        ELSE PErr("ExpectedObjectCommaOrEnd")

IgnoreMembersAfter(bs, v) == IF v.ok THEN IgnoreMembers(bs, v.pos, FALSE) ELSE v

(***************************************************************************)
(* serde_json: deserializing T = CustomXUserInfo                           *)
(***************************************************************************)
\* parse_integer's digit loop: significand * 10 + digit until it would
\* overflow a u64 (then the number is read as an f64).
RECURSIVE ParseSignificand(_, _, _)
ParseSignificand(bs, i, acc) ==
    IF ~IsDigit(Peek(bs, i)) THEN [pos |-> i, val |-> acc, overflow |-> FALSE]
    ELSE IF ~IsU64(MulAdd10(acc, bs[i] - 48)) THEN [pos |-> i, val |-> acc, overflow |-> TRUE]
    ELSE ParseSignificand(bs, i + 1, MulAdd10(acc, bs[i] - 48))

\* A value r that was read, but is not of the type wanted.
InvalidType(r) == IF r.ok THEN PErr("invalid type") ELSE r

\* peek_invalid_type: the value at j (whitespace skipped) is not of the wanted
\* type; it is read far enough to say what it is, or that it is no value.
PeekInvalidType(bs, j) ==
    LET c == Peek(bs, j)
    IN  IF c = 110 THEN InvalidType(ParseIdent(bs, j + 1, Ull))
        ELSE IF c = 116 THEN InvalidType(ParseIdent(bs, j + 1, Rue))
        ELSE IF c = 102 THEN InvalidType(ParseIdent(bs, j + 1, Alse))
        ELSE IF c = 45 THEN InvalidType(IgnoreInteger(bs, j + 1))
        ELSE IF IsDigit(c) THEN InvalidType(IgnoreInteger(bs, j))
        ELSE IF c = 34 THEN InvalidType(ParseStr(bs, j + 1))
        ELSE IF c = 91 \/ c = 123 THEN PErr("invalid type")
        ELSE PErr("ExpectedSomeValue")

\* deserialize_string
DeserializeString(bs, i) ==
    LET j == SkipWs(bs, i)
        c == Peek(bs, j)
    IN  IF c = -1 THEN PErr("EofWhileParsingValue")
        ELSE IF c = 34 THEN ParseStr(bs, j + 1)
        ELSE PeekInvalidType(bs, j)

\* parse_number, then the u64 visitor: sig is the significand read at k.  A
\* fraction, an exponent or an overflow makes an f64, a '-' an i64 (-0 an f64).
ParseNumber(bs, k, positive, sig) ==
    IF sig.overflow \/ Peek(bs, sig.pos) \in {46, 101, 69} THEN InvalidType(IgnoreInteger(bs, k))
    ELSE IF ~positive THEN
        IF sig.val = U64(0) THEN PErr("invalid type") ELSE PErr("invalid value")
    ELSE POk(sig.pos, sig.val)

\* parse_integer: k is the first byte after an optional '-'.
ParseInteger(bs, k, positive) ==
    LET d == Peek(bs, k)
    IN  IF d = -1 THEN PErr("EofWhileParsingValue")
        ELSE IF ~IsDigit(d) THEN PErr("InvalidNumber")
        ELSE IF d = 48 THEN
            IF IsDigit(Peek(bs, k + 1)) THEN PErr("InvalidNumber")
            ELSE ParseNumber(bs, k, positive, [pos |-> k + 1, val |-> U64(0), overflow |-> FALSE])
        ELSE ParseNumber(bs, k, positive, ParseSignificand(bs, k, U64(0)))

\* deserialize_u64: only a non-negative integer literal that fits a u64 is one.
DeserializeU64(bs, i) ==
    LET j == SkipWs(bs, i)
        c == Peek(bs, j)
    IN  IF c = -1 THEN PErr("EofWhileParsingValue")
        ELSE IF c = 45 THEN ParseInteger(bs, j + 1, FALSE)
        ELSE IF IsDigit(c) THEN ParseInteger(bs, j, TRUE)
        ELSE PeekInvalidType(bs, j)

\* SeqAccess::next_element_seed up to the element: [ok, pos, end] or an error.
NextElementStart(bs, i, first) ==
    LET j == SkipWs(bs, i)
        c == Peek(bs, j)
        k == SkipWs(bs, j + 1)
    IN  IF c = -1 THEN PErr("EofWhileParsingList")
        ELSE IF c = 93 THEN [ok |-> TRUE, pos |-> j, end |-> TRUE]
        ELSE IF c = 44 /\ ~first THEN
            IF Peek(bs, k) = 93 THEN PErr("TrailingComma")
            ELSE IF Peek(bs, k) = -1 THEN PErr("EofWhileParsingValue")
            ELSE [ok |-> TRUE, pos |-> k, end |-> FALSE]
        ELSE IF first THEN [ok |-> TRUE, pos |-> j, end |-> FALSE]
        ELSE PErr("ExpectedListCommaOrEnd")

\* An element that was read is Some(element).
SomeOf(r) == IF r.ok THEN POk(r.pos, Some(r.val)) ELSE r

\* SeqAccess::next_element: None at the closing bracket.
ElementAt(bs, s, isNumber) ==
    IF ~s.ok THEN s
    ELSE IF s.end THEN POk(s.pos, None)
    ELSE IF isNumber THEN SomeOf(DeserializeU64(bs, s.pos))
    ELSE SomeOf(DeserializeString(bs, s.pos))

NextElement(bs, i, first, isNumber) == ElementAt(bs, NextElementStart(bs, i, first), isNumber)

\* end_seq
EndSeq(bs, i) ==
    LET j == SkipWs(bs, i)
        c == Peek(bs, j)
    IN  IF c = -1 THEN PErr("EofWhileParsingList")
        ELSE IF c = 93 THEN POk(j + 1, <<>>)
        ELSE IF c = 44 THEN
            IF Peek(bs, SkipWs(bs, j + 1)) = 93 THEN PErr("TrailingComma")
            ELSE PErr("TrailingCharacters")
        ELSE PErr("TrailingCharacters")

\* The derived Visitor::visit_seq: sub, name, iat in declaration order.
VisitSeqIat(sub, name, e) ==
    IF ~e.ok THEN e
    ELSE IF e.val = None THEN PErr("invalid length 2")
    ELSE POk(e.pos, [sub |-> sub, name |-> name, iat |-> e.val[1]])

VisitSeqName(bs, sub, e) ==
    IF ~e.ok THEN e
    ELSE IF e.val = None THEN PErr("invalid length 1")
    ELSE VisitSeqIat(sub, e.val[1], NextElement(bs, e.pos, FALSE, TRUE))

VisitSeqSub(bs, e) ==
    IF ~e.ok THEN e
    ELSE IF e.val = None THEN PErr("invalid length 0")
    ELSE VisitSeqName(bs, e.val[1], NextElement(bs, e.pos, FALSE, FALSE))

VisitSeq(bs, i) == VisitSeqSub(bs, NextElement(bs, i, TRUE, FALSE))

\* MapAccess::next_key_seed up to the key: [ok, pos, end] or an error.
NextKeyStart(bs, i, first) ==
    LET j == SkipWs(bs, i)
        c == Peek(bs, j)
        k == IF c = 44 /\ ~first THEN SkipWs(bs, j + 1) ELSE j
        d == Peek(bs, k)
    IN  IF c = -1 THEN PErr("EofWhileParsingObject")
        ELSE IF c = 125 THEN [ok |-> TRUE, pos |-> j, end |-> TRUE]
        ELSE IF c # 44 /\ ~first THEN PErr("ExpectedObjectCommaOrEnd")
        ELSE IF d = -1 THEN PErr("EofWhileParsingValue")
        ELSE IF d = 125 THEN PErr("TrailingComma")
        ELSE IF d # 34 THEN PErr("KeyMustBeAString")
        ELSE [ok |-> TRUE, pos |-> k, end |-> FALSE]

\* parse_object_colon
ParseObjectColon(bs, i) ==
    LET j == SkipWs(bs, i)
        c == Peek(bs, j)
    IN  IF c = -1 THEN PErr("EofWhileParsingObject")
        ELSE IF c = 58 THEN POk(j + 1, <<>>)
        ELSE PErr("ExpectedColon")

\* end_map
EndMap(bs, i) ==
    LET j == SkipWs(bs, i)
        c == Peek(bs, j)
    IN  IF c = -1 THEN PErr("EofWhileParsingObject")
        ELSE IF c = 125 THEN POk(j + 1, <<>>)
        ELSE IF c = 44 THEN PErr("TrailingComma")
        ELSE PErr("TrailingCharacters")

\* The field names of CustomXUserInfo (rename_all = "snake_case" leaves them).
FieldSub == Bytes("sub")
FieldName == Bytes("name")
FieldIat == Bytes("iat")

\* The derived Visitor::visit_map: a loop over the members.  A field seen twice
\* is an error, an unknown key's value is skipped, and a field still missing
\* at the closing brace is an error.
RECURSIVE VisitMap(_, _, _, _)
RECURSIVE VisitMapKey(_, _, _)
RECURSIVE VisitMapColon(_, _, _)
RECURSIVE VisitMapValue(_, _, _, _)
RECURSIVE VisitMapStore(_, _, _, _)

\* The fields gathered when the closing brace is met at pos.
VisitMapEnd(pos, f) ==
    IF f.sub = None THEN PErr("missing field sub")
    ELSE IF f.name = None THEN PErr("missing field name")
    ELSE IF f.iat = None THEN PErr("missing field iat")
    ELSE POk(pos, [sub |-> f.sub[1], name |-> f.name[1], iat |-> f.iat[1]])

VisitMap(bs, i, first, f) == VisitMapKey(bs, f, NextKeyStart(bs, i, first))

VisitMapKey(bs, f, s) ==
    IF ~s.ok THEN s
    ELSE IF s.end THEN VisitMapEnd(s.pos, f)
    ELSE VisitMapColon(bs, f, ParseStr(bs, s.pos + 1))

VisitMapColon(bs, f, key) ==
    IF ~key.ok THEN key
    ELSE IF key.val = FieldSub /\ f.sub # None THEN PErr("duplicate field sub")
    ELSE IF key.val = FieldName /\ f.name # None THEN PErr("duplicate field name")
    ELSE IF key.val = FieldIat /\ f.iat # None THEN PErr("duplicate field iat")
    ELSE VisitMapValue(bs, f, key.val, ParseObjectColon(bs, key.pos))

VisitMapValue(bs, f, key, colon) ==
    IF ~colon.ok THEN colon
    ELSE IF key = FieldSub \/ key = FieldName
         THEN VisitMapStore(bs, f, key, DeserializeString(bs, colon.pos))
    ELSE IF key = FieldIat THEN VisitMapStore(bs, f, key, DeserializeU64(bs, colon.pos))
    ELSE VisitMapStore(bs, f, key, IgnoreValue(bs, colon.pos))

VisitMapStore(bs, f, key, v) ==
    IF ~v.ok THEN v
    ELSE IF key = FieldSub THEN VisitMap(bs, v.pos, FALSE, [f EXCEPT !.sub = Some(v.val)])
    ELSE IF key = FieldName THEN VisitMap(bs, v.pos, FALSE, [f EXCEPT !.name = Some(v.val)])
    ELSE IF key = FieldIat THEN VisitMap(bs, v.pos, FALSE, [f EXCEPT !.iat = Some(v.val)])
    ELSE VisitMap(bs, v.pos, FALSE, f)

\* The value v, once its closing bracket or brace e has been read.
StructEnd(v, e) == IF ~e.ok THEN e ELSE POk(e.pos, v.val)

StructFromSeq(bs, v) == IF ~v.ok THEN v ELSE StructEnd(v, EndSeq(bs, v.pos))

StructFromMap(bs, v) == IF ~v.ok THEN v ELSE StructEnd(v, EndMap(bs, v.pos))

\* deserialize_struct: a struct is read from an object or from an array.
DeserializeStruct(bs, i) ==
    LET j == SkipWs(bs, i)
        c == Peek(bs, j)
    IN  IF c = -1 THEN PErr("EofWhileParsingValue")
        ELSE IF c = 91 THEN StructFromSeq(bs, VisitSeq(bs, j + 1))
        ELSE IF c = 123 THEN
            StructFromMap(bs, VisitMap(bs, j + 1, TRUE, [sub |-> None, name |-> None, iat |-> None]))
        ELSE PeekInvalidType(bs, j)

\* Deserializer::end: only whitespace may follow the value r.
\* A deserializer that does not look at what follows the value.
DeserializerEndLenient(bs, r) ==
    IF ~r.ok THEN Fail(r.code)
    ELSE Ok(r.val)

DeserializerEnd(bs, r) ==
    IF ~r.ok THEN Fail(r.code)
    ELSE IF SkipWs(bs, r.pos) <= Len(bs) THEN Fail("TrailingCharacters")
    ELSE Ok(r.val)

\* serde_json::from_slice::<CustomXUserInfo>
serde_json_from_slice(bs) == DeserializerEnd(bs, DeserializeStruct(bs, 1))

(***************************************************************************)
(* XUserInfoError, XUserInfo<T>                                            *)
(***************************************************************************)
MissingHeader == [kind |-> "MissingHeader", source |-> None]

\* The #[from] conversions the ? operator applies.
From_ToStrError(e) == [kind |-> "ToStringError", source |-> Some(e)]
From_DecodeError(e) == [kind |-> "Base64DecodeError", source |-> Some(e)]
From_JsonError(e) == [kind |-> "JsonDecodeError", source |-> Some(e)]

\* The tuple struct XUserInfo(T) and its Deref.
XUserInfo(v) == <<v>>
deref(x) == x[1]

\* Display, as #[error("...")] derives it: the text, then the source's own text.
to_string(e) ==
    IF e.kind = "MissingHeader" THEN <<"x-userinfo header is missing">>
    ELSE IF e.kind = "ToStringError" THEN <<"invalid x-userinfo header: ", e.source[1]>>
    ELSE IF e.kind = "Base64DecodeError"
         THEN <<"invalid x-userinfo, base64 decode error: ", e.source[1]>>
    ELSE <<"invalid x-userinfo, json decode error: ", e.source[1]>>

\* StatusCode::BAD_REQUEST
BAD_REQUEST == 400

\* ResponseError's provided status_code: 500 Internal Server Error.
default_status_code(e) == 500

status_code(e) == BAD_REQUEST

\* ContentType::plaintext(): the media type text/plain with charset=utf-8.
ContentType_plaintext == [essence |-> "text/plain", charset |-> "utf-8"]

error_response(e) ==
    [status |-> status_code(e),
     headers |-> <<[name |-> "content-type", value |-> ContentType_plaintext]>>,
     body |-> to_string(e)]

\* An extraction that answers from what earlier extractions, on any request,
\* have left behind.
try_from_memo(lines) ==
    IF \A r \in DOMAIN results : results[r] = {}
    THEN Fail(MissingHeader)
    ELSE Fail(From_ToStrError("failed to convert header to a str"))

\* TryFrom<&HttpRequest> for XUserInfo<T>, as one function of the header lines.
try_from(lines) ==
    LET h == HeaderMapGet(lines, X_USER_INFO_HEADER)
        t == to_str(h.val)
        d == BASE64_STANDARD_decode(t.val)
        j == serde_json_from_slice(d.val)
    IN  IF ~h.some THEN Fail(MissingHeader)
        ELSE IF ~t.ok THEN Fail(From_ToStrError(t.err))
        ELSE IF ~d.ok THEN Fail(From_DecodeError(d.err))
        ELSE IF ~j.ok THEN Fail(From_JsonError(j.err))
        ELSE Ok(XUserInfo(j.val))

\* A future that is not complete when it is returned.
pending(v) == [state |-> "pending", value |-> Some(v)]

\* std::future::ready: a future that is complete from the start.
ready(v) == [state |-> "ready", value |-> Some(v)]

\* A binding that gives up when the request has a body to read.
from_request_reading_payload(lines, p) ==
    [state |-> "ready",
     value |-> Some(IF p = "Stream" THEN Fail(MissingHeader) ELSE try_from(lines))]

\* FromRequest::from_request: ready(req.try_into()); the payload is not read.
from_request(lines, p) == ready(try_from(lines))

\* Future::poll, as the executor sees it: a future that is not complete
\* answers Pending (and is woken later); a complete one hands its value over.
poll(fut) ==
    IF fut.state = "ready"
    THEN [out |-> [poll |-> "Ready", value |-> fut.value[1]],
          fut |-> [state |-> "done", value |-> None]]
    ELSE [out |-> [poll |-> "Pending", value |-> None],
          fut |-> [fut EXCEPT !.state = "ready"]]

\* dev::Payload: the variants from_request may be handed.
Payloads == {"None", "Stream"}

(***************************************************************************)
(* Inputs: the requests a client can send.  Each comes with a note of how  *)
(* it was built (sent.how) and, where it encodes one, of the value.        *)
(***************************************************************************)
MaxStrLen == 2          \* length, in characters, of the strings of a value
MaxOtherHeaders == 1    \* headers sent besides the designated one

\* The characters strings are made of, as UTF-8: ? " \ LF U+0001 U+1F600
StrUnits == <<Bytes("?"), Bytes("\""), Bytes("\\"), <<10>>, <<1>>, <<240, 159, 152, 128>>>>

RECURSIVE StrsOfLen(_)
StrsOfLen(n) ==
    IF n = 0 THEN {<<>>}
    ELSE {s \o StrUnits[k] : s \in StrsOfLen(n - 1), k \in 1..Len(StrUnits)}

Strs == UNION {StrsOfLen(n) : n \in 0..MaxStrLen}
ShortStrs == UNION {StrsOfLen(n) : n \in 0..1}

Iats == {U64(0), U64(7), U64(1516239022), <<0, 1, 0>>, <<1, 0, 20>>, U64_MAX}

\* The value of tests::test_x_user_info.
TestValue == [sub |-> Bytes("test sub"), name |-> Bytes("test name"), iat |-> U64(1516239022)]

ShortValues ==
    {TestValue}
    \cup {[sub |-> s, name |-> Bytes("n"), iat |-> U64(7)] : s \in ShortStrs}
    \cup {[sub |-> Bytes("s"), name |-> s, iat |-> U64(7)] : s \in ShortStrs}
    \cup {[sub |-> Bytes("s"), name |-> Bytes("n"), iat |-> i] : i \in Iats}

Values == ShortValues \cup {[sub |-> s, name |-> Bytes("n"), iat |-> U64(7)] : s \in Strs}

\* A request that carries hv in the designated header.
Designated(hv) == <<<<X_USER_INFO_HEADER, hv>>>>

Input(lines, how, value) == [lines |-> lines, sent |-> [how |-> how, value |-> value]]

\* The test's construction: JSON, then standard padded base64, into the header.
RoundTripInputs ==
    {Input(Designated(BASE64_STANDARD_encode(to_string_T(v))), "to_string", Some(v)) : v \in Values}
    \cup {Input(Designated(BASE64_STANDARD_encode(to_string_Value(v))), "json_macro", Some(v))
            : v \in ShortValues}

\* The same documents in the encodings the extractor is not to accept.
VariantInputs ==
    {Input(Designated(EncodeWith(to_string_T(v), UrlSafeAlphabet, TRUE)), "url_safe", Some(v))
        : v \in ShortValues}
    \cup {Input(Designated(EncodeWith(to_string_T(v), StandardAlphabet, FALSE)), "unpadded", Some(v))
            : v \in ShortValues}

SmallValue == [sub |-> Bytes("s"), name |-> Bytes("n?"), iat |-> U64(7)]
SmallDoc == to_string_T(SmallValue)

\* Every proper prefix of a document: truncated JSON (the empty prefix is an
\* empty header value).
TruncatedInputs ==
    {Input(Designated(BASE64_STANDARD_encode(SubSeq(SmallDoc, 1, n))), "truncated", None)
        : n \in 0..(Len(SmallDoc) - 1)}

\* One symbol of a valid header value replaced: by '-' '_' '=' ' ' '*' (not in
\* the alphabet), by 'B' (in it), by a tab, by a byte that is not text.
CorruptBytes == {45, 95, 61, 32, 42, 66, 9, 128, 255}
CorruptBases == {BASE64_STANDARD_encode(SubSeq(SmallDoc, 1, n))
                    : n \in (Len(SmallDoc) - 2)..Len(SmallDoc)}
\* Where: at the start, in the middle, and through the final quads.
CorruptAt == {1, 2, 18} \cup ((Len(BASE64_STANDARD_encode(SmallDoc)) - 7)..Len(BASE64_STANDARD_encode(SmallDoc)))
CorruptedInputs ==
    {Input(Designated([t EXCEPT ![i] = b]), "corrupted", None)
        : <<t, i, b>> \in {x \in CorruptBases \X CorruptAt \X CorruptBytes
                             : x[2] <= Len(x[1]) /\ x[1][x[2]] # x[3]}}

\* A valid header value with symbols appended or dropped.
ResizedInputs ==
    {Input(Designated(t \o x), "resized", None)
        : t \in CorruptBases, x \in {<<61>>, <<61, 61>>, <<65>>, <<65, 65>>, <<32>>, <<9>>}}
    \cup {Input(Designated(SubSeq(t, 1, Len(t) - k)), "resized", None)
            : t \in CorruptBases, k \in 1..3}

Doc(how, str) == [how |-> how, doc |-> Bytes(str)]

\* Documents that are not a CustomXUserInfo, and some that are.
CraftedDocs == {
    Doc("malformed", "not json"),
    Doc("malformed", "{\"sub\":\"a\",\"name\":\"b\",\"iat\":1"),
    Doc("malformed", "{\"sub\":\"a\",\"name\":\"b\",\"iat\":1,}"),
    Doc("malformed", "{\"sub\":\"a\" \"name\":\"b\",\"iat\":1}"),
    Doc("malformed", "{\"sub\":\"a\",\"name\":\"b\",\"iat\":1}}"),
    Doc("malformed", "{\"sub\":\"a\",\"name\":\"b\",\"iat\":1} x"),
    Doc("malformed", "{\"sub\"=\"a\",\"name\":\"b\",\"iat\":1}"),
    Doc("malformed", "{sub:\"a\",\"name\":\"b\",\"iat\":1}"),
    Doc("malformed", "{\"sub\":\"a\\x\",\"name\":\"b\",\"iat\":1}"),
    Doc("malformed", "{\"sub\":\"\\ud800\",\"name\":\"b\",\"iat\":1}"),
    Doc("malformed", "{\"sub\":\"\\u12\",\"name\":\"b\",\"iat\":1}"),
    Doc("malformed", "{\"sub\":\"a\",\"name\":\"b\",\"iat\":01}"),
    Doc("malformed", "{\"sub\":\"a\",\"name\":\"b\",\"iat\":1.}"),
    Doc("malformed", "{\"sub\":\"a\",\"name\":\"b\",\"iat\":1e}"),
    Doc("malformed", "{\"sub\":\"a\",\"name\":\"b\",\"iat\":-}"),
    Doc("malformed", "{\"sub\":\"a\",\"name\":\"b\",\"iat\":1,\"x\":[1,]}"),
    Doc("malformed", "{\"sub\":\"a\",\"name\":\"b\",\"iat\":1,\"x\":nul}"),
    Doc("malformed", "{\"sub\":\"a\",\"name\":\"b\",\"iat\":1,\"x\":{\"y\"}}"),
    Doc("malformed", "[\"a\",\"b\",1"),
    Doc("malformed", "[\"a\",\"b\",1,]"),
    Doc("malformed", "[\"a\" \"b\",1]"),
    Doc("missing_field", "{}"),
    Doc("missing_field", "{\"name\":\"b\",\"iat\":1}"),
    Doc("missing_field", "{\"sub\":\"a\",\"iat\":1}"),
    Doc("missing_field", "{\"sub\":\"a\",\"name\":\"b\"}"),
    Doc("missing_field", "{\"Sub\":\"a\",\"name\":\"b\",\"iat\":1}"),
    Doc("missing_field", "{\"sub\":\"a\",\"name\":\"b\",\"x\":{\"iat\":1}}"),
    Doc("wrong_type", "{\"sub\":1,\"name\":\"b\",\"iat\":1}"),
    Doc("wrong_type", "{\"sub\":null,\"name\":\"b\",\"iat\":1}"),
    Doc("wrong_type", "{\"sub\":\"a\",\"name\":[\"b\"],\"iat\":1}"),
    Doc("wrong_type", "{\"sub\":\"a\",\"name\":{\"b\":1},\"iat\":1}"),
    Doc("wrong_type", "{\"sub\":\"a\",\"name\":true,\"iat\":1}"),
    Doc("wrong_type", "{\"sub\":\"a\",\"name\":\"b\",\"iat\":\"1\"}"),
    Doc("wrong_type", "{\"sub\":\"a\",\"name\":\"b\",\"iat\":-1}"),
    Doc("wrong_type", "{\"sub\":\"a\",\"name\":\"b\",\"iat\":-0}"),
    Doc("wrong_type", "{\"sub\":\"a\",\"name\":\"b\",\"iat\":1.5}"),
    Doc("wrong_type", "{\"sub\":\"a\",\"name\":\"b\",\"iat\":1e2}"),
    Doc("wrong_type", "{\"sub\":\"a\",\"name\":\"b\",\"iat\":18446744073709551616}"),
    Doc("wrong_type", "{\"sub\":\"a\",\"name\":\"b\",\"iat\":null}"),
    Doc("wrong_type", "{\"sub\":\"a\",\"name\":\"b\",\"iat\":false}"),
    Doc("wrong_type", "null"),
    Doc("wrong_type", "\"sub\""),
    Doc("wrong_type", "17"),
    Doc("wrong_type", "true"),
    Doc("wrong_type", "[1,\"b\",1]"),
    Doc("wrong_type", "[\"a\",\"b\",\"c\"]"),
    Doc("other", "{\"sub\":\"a\",\"name\":\"b\",\"iat\":1,\"sub\":\"c\"}"),
    Doc("other", "[\"a\",\"b\"]"),
    Doc("other", "[\"a\",\"b\",1,2]"),
    Doc("other", " { \"sub\" : \"a\" , \"name\" : \"b\" , \"iat\" : 1 } "),
    Doc("other", "{\"iat\":18446744073709551615,\"x\":[1,{\"y\":null},-2.5e+3,\"\\u00e9\"],\"name\":\"\",\"sub\":\"\\u00e9\\ud83d\\ude00\\/\"}"),
    Doc("other", "[\"a\",\"b\",1]"),
    Doc("other", "[ \"a\" , \"b\" , 0 ]")
}

\* Documents whose strings are not UTF-8 (no string literal holds them).
BinaryDocs == {
    [how |-> "malformed", doc |-> Bytes("{\"sub\":\"") \o <<255>> \o Bytes("\",\"name\":\"b\",\"iat\":1}")],
    [how |-> "malformed", doc |-> Bytes("{\"sub\":\"") \o <<195>> \o Bytes("\",\"name\":\"b\",\"iat\":1}")],
    [how |-> "malformed", doc |-> Bytes("{\"sub\":\"") \o <<237, 160, 128>> \o Bytes("\",\"name\":\"b\",\"iat\":1}")],
    [how |-> "malformed", doc |-> Bytes("{\"sub\":\"a") \o <<10>> \o Bytes("\",\"name\":\"b\",\"iat\":1}")],
    [how |-> "malformed", doc |-> Bytes("{\"") \o <<200>> \o Bytes("\":1,\"sub\":\"a\",\"name\":\"b\",\"iat\":1}")],
    [how |-> "other", doc |-> Bytes("{\"x\":\"") \o <<255>> \o Bytes("\",\"sub\":\"a\",\"name\":\"b\",\"iat\":1}")],
    [how |-> "other", doc |-> <<10, 9, 13>> \o Bytes("{\"sub\":\"a\",\"name\":\"b\",\"iat\":1}") \o <<10>>]
}

CraftedInputs ==
    {Input(Designated(BASE64_STANDARD_encode(d.doc)), d.how, None) : d \in CraftedDocs \cup BinaryDocs}

\* Header lines other than the designated one.
ValidText == BASE64_STANDARD_encode(to_string_T(TestValue))
OtherLines == {<<"authorization", Bytes("Bearer x")>>,
               <<"x-userinfo2", ValidText>>,
               <<"x-user-info", ValidText>>,
               <<"content-type", <<233>>>>}

RECURSIVE OtherHeaders(_)
OtherHeaders(n) ==
    IF n = 0 THEN {<<>>}
    ELSE OtherHeaders(n - 1) \cup {Append(ls, l) : ls \in OtherHeaders(n - 1), l \in OtherLines}

\* No designated header at all, whatever else is sent.
AbsentInputs == {Input(ls, "absent", None) : ls \in OtherHeaders(MaxOtherHeaders + 1)}

\* The designated header among others, under any spelling of its name, and sent twice.
PresentInputs ==
    {Input(before \o <<<<n, hv>>>> \o after, "among_others", None)
        : before \in OtherHeaders(MaxOtherHeaders),
          after \in {<<>>, <<<<"x-userinfo2", Bytes("e30=")>>>>},
          n \in {"x-userinfo", "X-UserInfo", "X-USERINFO"},
          hv \in {ValidText, <<>>, Bytes("a-b"), <<233>>}}
    \cup {Input(<<<<X_USER_INFO_HEADER, a>>, <<"X-Userinfo", b>>>>, "twice", None)
            : a \in {ValidText, <<>>, <<233>>}, b \in {ValidText, Bytes("a-b")}}

Built == RoundTripInputs \cup VariantInputs \cup TruncatedInputs \cup CorruptedInputs
         \cup ResizedInputs \cup CraftedInputs \cup AbsentInputs \cup PresentInputs

\* A request holds only header values HeaderValue accepts.
Inputs == {in \in Built : \A i \in 1..Len(in.lines) : IsValidHeaderValue(in.lines[i][2])}

(***************************************************************************)
(* The extraction of one request, statement by statement: try_from called  *)
(* directly, the response the framework builds from an error, and then     *)
(* the same request bound through from_request and polled.                 *)
(***************************************************************************)
NoRequests == <<>>

PipelineInit ==
    /\ \E in \in Inputs : request = in.lines /\ sent = in.sent
    /\ pc = "start"
    /\ header = None
    /\ text = None
    /\ decoded = None
    /\ attempted = <<>>
    /\ outcome = None
    /\ response = None
    /\ payload = None
    /\ future = None
    /\ polled = <<>>

ServerIdle ==
    /\ reqs = NoRequests
    /\ results = NoRequests
    /\ bound = NoRequests

Init == PipelineInit /\ ServerIdle

\* A stage's failure leaves try_from at once (the ? operator).
Return(result) ==
    /\ outcome' = Some(result)
    /\ pc' = "returned"

\* req.headers().get(X_USER_INFO_HEADER).ok_or(XUserInfoError::MissingHeader)?
GetHeader ==
    /\ pc = "start"
    /\ attempted' = Append(attempted, "header lookup")
    /\ LET h == HeaderMapGet(request, X_USER_INFO_HEADER)
       IN  IF h.some
           THEN /\ header' = Some(h.val)
                /\ pc' = "located"
                /\ UNCHANGED outcome
           ELSE /\ Return(Fail(MissingHeader))
                /\ UNCHANGED header
    /\ UNCHANGED <<sent, request, text, decoded, response, payload, future, polled, serverVars>>

\* .to_str()?
ToStr ==
    /\ pc = "located"
    /\ attempted' = Append(attempted, "text validation")
    /\ LET t == to_str(header[1])
       IN  IF t.ok
           THEN /\ text' = Some(t.val)
                /\ pc' = "text"
                /\ UNCHANGED outcome
           ELSE /\ Return(Fail(From_ToStrError(t.err)))
                /\ UNCHANGED text
    /\ UNCHANGED <<sent, request, header, decoded, response, payload, future, polled, serverVars>>

\* let base64_decoded = BASE64_STANDARD.decode(header)?;
Base64Decode ==
    /\ pc = "text"
    /\ attempted' = Append(attempted, "base64 decode")
    /\ LET d == BASE64_STANDARD_decode(text[1])
       IN  IF d.ok
           THEN /\ decoded' = Some(d.val)
                /\ pc' = "decoded"
                /\ UNCHANGED outcome
           ELSE /\ Return(Fail(From_DecodeError(d.err)))
                /\ UNCHANGED decoded
    /\ UNCHANGED <<sent, request, header, text, response, payload, future, polled, serverVars>>

\* Ok(XUserInfo(serde_json::from_slice(&base64_decoded)?))
JsonDecode ==
    /\ pc = "decoded"
    /\ attempted' = Append(attempted, "json decode")
    /\ LET j == serde_json_from_slice(decoded[1])
       IN  IF j.ok
           THEN Return(Ok(XUserInfo(j.val)))
           ELSE Return(Fail(From_JsonError(j.err)))
    /\ UNCHANGED <<sent, request, header, text, decoded, response, payload, future, polled,
                   serverVars>>

\* The framework renders a failed extraction with ResponseError::error_response.
ErrorResponse ==
    /\ pc = "returned"
    /\ ~outcome[1].ok
    /\ future = None
    /\ response' = Some(error_response(outcome[1].err))
    /\ pc' = "responded"
    /\ UNCHANGED <<sent, request, header, text, decoded, attempted, outcome, payload, future,
                   polled, serverVars>>

\* The same request is bound as a handler parameter: from_request(&req, &mut payload).
FromRequest(p) ==
    /\ pc = "returned"
    /\ future = None
    /\ future' = Some(from_request(request, p))
    /\ payload' = Some(p)
    /\ UNCHANGED <<sent, request, pc, header, text, decoded, attempted, outcome, response,
                   polled, serverVars>>

\* The framework awaits the future: it polls until the future is complete.
Poll ==
    /\ future # None
    /\ future[1].state # "done"
    /\ polled' = Append(polled, poll(future[1]).out)
    /\ future' = Some(poll(future[1]).fut)
    /\ UNCHANGED <<sent, request, pc, header, text, decoded, attempted, outcome, response,
                   payload, serverVars>>

Next ==
    \/ GetHeader
    \/ ToStr
    \/ Base64Decode
    \/ JsonDecode
    \/ ErrorResponse
    \/ \E p \in Payloads : FromRequest(p)
    \/ Poll

Spec == Init /\ [][Next]_vars

(***************************************************************************)
(* What the properties below speak of, said without the operators above:   *)
(* where the designated header is, what text is, what standard padded      *)
(* base64 is, which message an error kind prints.                          *)
(***************************************************************************)
\* try_from has just returned (nothing since has touched the request).
Returned == pc = "returned" /\ future = None

Failed == outcome # None /\ ~outcome[1].ok
Kind == outcome[1].err.kind

StageOrder == <<"header lookup", "text validation", "base64 decode", "json decode">>

Designates(line) == HeaderName(line[1]) = Bytes("x-userinfo")
Absent(lines) == \A i \in 1..Len(lines) : ~Designates(lines[i])
FirstValue(lines) ==
    lines[CHOOSE i \in 1..Len(lines) :
            Designates(lines[i]) /\ \A j \in 1..(i - 1) : ~Designates(lines[j])][2]

IsText(bs) == \A i \in 1..Len(bs) : (bs[i] >= 32 /\ bs[i] <= 126) \/ bs[i] = 9

SymbolIndex(b) == (CHOOSE k \in 1..64 : StandardAlphabet[k] = b) - 1
IsSymbol(b) == \E k \in 1..64 : StandardAlphabet[k] = b

\* RFC 4648 section 4, as an encoder writes it: whole quads of symbols, the
\* last one padded with one or two '=' whose spare bits are zero.
IsStandardBase64(bs) ==
    LET n == Len(bs)
        pads == IF n >= 2 /\ bs[n] = 61 /\ bs[n - 1] = 61 THEN 2
                ELSE IF n >= 1 /\ bs[n] = 61 THEN 1 ELSE 0
    IN  /\ n % 4 = 0
        /\ \A i \in 1..(n - pads) : IsSymbol(bs[i])
        /\ pads = 1 => SymbolIndex(bs[n - 1]) % 4 = 0
        /\ pads = 2 => SymbolIndex(bs[n - 2]) % 16 = 0

\* The message of each error kind: a fixed text, then the underlying error.
Message(e) ==
    CASE e.kind = "MissingHeader" -> <<"x-userinfo header is missing">>
      [] e.kind = "ToStringError" -> <<"invalid x-userinfo header: ", e.source[1]>>
      [] e.kind = "Base64DecodeError" ->
            <<"invalid x-userinfo, base64 decode error: ", e.source[1]>>
      [] e.kind = "JsonDecodeError" ->
            <<"invalid x-userinfo, json decode error: ", e.source[1]>>

\* The kind of the first stage the request fails, "none" if it fails none.
\* A stage is judged on the bytes it would be given.
FirstFailure(lines) ==
    IF Absent(lines) THEN "MissingHeader"
    ELSE IF ~IsText(FirstValue(lines)) THEN "ToStringError"
    ELSE IF ~IsStandardBase64(FirstValue(lines)) THEN "Base64DecodeError"
    ELSE IF ~serde_json_from_slice(BASE64_STANDARD_decode(FirstValue(lines)).val).ok
         THEN "JsonDecodeError"
    ELSE "none"

StageOf(kind) ==
    CASE kind = "MissingHeader" -> 1
      [] kind = "ToStringError" -> 2
      [] kind = "Base64DecodeError" -> 3
      [] kind = "JsonDecodeError" -> 4
      [] kind = "none" -> 4

\* C1: try_from runs its stages in the order header lookup, text validation,
\* base64 decode, JSON decode; it returns the error of the first stage the
\* request fails, having attempted no later stage and holding no product of
\* one; it returns a value only when the request fails no stage.
C1_FirstError ==
    /\ attempted = SubSeq(StageOrder, 1, Len(attempted))
    /\ Returned =>
        LET first == FirstFailure(request)
        IN  /\ outcome[1].ok <=> first = "none"
            /\ ~outcome[1].ok => Kind = first
            /\ Len(attempted) = StageOf(first)
            /\ Len(attempted) < 2 => header = None
            /\ Len(attempted) < 3 => text = None
            /\ Len(attempted) < 4 => decoded = None

\* A header value that is neither text nor base64 nor JSON: only the text
\* validation is reported.
C1_Witness ==
    /\ Returned
    /\ ~Absent(request)
    /\ ~IsText(FirstValue(request))
    /\ ~IsStandardBase64(FirstValue(request))
    /\ ~serde_json_from_slice(FirstValue(request)).ok
    /\ Failed
    /\ Kind = "ToStringError"
    /\ attempted = <<"header lookup", "text validation">>

\* C2: a value written as JSON, then as standard padded base64, into the
\* x-userinfo header is extracted successfully, and the extracted value equals it.
C2_RoundTrip ==
    Returned /\ sent.how \in {"to_string", "json_macro"} =>
        /\ outcome[1].ok
        /\ deref(outcome[1].val) = sent.value[1]

\* A value with the largest iat, written by json!, comes back.
C2_Witness ==
    /\ Returned
    /\ sent.how = "json_macro"
    /\ sent.value[1].iat = U64_MAX
    /\ outcome[1].ok
    /\ deref(outcome[1].val) = sent.value[1]

\* C3: for each of the four error kinds, error_response has status 400,
\* Content-Type text/plain, and the error's message as its body.
C3_ErrorResponse ==
    response # None =>
        /\ Failed
        /\ Kind \in {"MissingHeader", "ToStringError", "Base64DecodeError", "JsonDecodeError"}
        /\ response[1].status = 400
        /\ \E i \in 1..Len(response[1].headers) :
               /\ response[1].headers[i].name = "content-type"
               /\ response[1].headers[i].value.essence = "text/plain"
        /\ response[1].body = Message(outcome[1].err)

C3_Witness ==
    /\ response # None
    /\ Kind = "ToStringError"
    /\ response[1].status = 400
    /\ response[1].body = <<"invalid x-userinfo header: ", "failed to convert header to a str">>

\* C4: a request without the x-userinfo header, whatever else it carries,
\* yields MissingHeader, and the response is a 400 whose body is exactly
\* "x-userinfo header is missing".
C4_MissingHeader ==
    Absent(request) =>
        /\ Returned => outcome[1] = Fail([kind |-> "MissingHeader", source |-> None])
        /\ response # None =>
              /\ response[1].status = 400
              /\ response[1].body = <<"x-userinfo header is missing">>

C4_Witness ==
    /\ Absent(request)
    /\ Len(request) >= 1
    /\ pc = "responded"
    /\ Kind = "MissingHeader"
    /\ response[1].body = <<"x-userinfo header is missing">>

\* C5: whatever payload it is given, from_request resolves to the result
\* try_from returned for the request: the same value or the same error.
C5_SameResult ==
    future # None =>
        /\ future[1].state # "done" => future[1].value = outcome
        /\ \A i \in 1..Len(polled) : polled[i].poll = "Ready" => polled[i].value = outcome[1]

C5_Witness ==
    /\ payload = Some("Stream")
    /\ polled # <<>>
    /\ polled[Len(polled)].poll = "Ready"
    /\ polled[Len(polled)].value = outcome[1]
    /\ Failed
    /\ Kind = "Base64DecodeError"

\* C6: a header value that is text but not standard padded base64 yields
\* Base64DecodeError; so does one with a URL-safe symbol, and one whose
\* padding is missing or wrong.
C6_NoLeniency ==
    Returned /\ ~Absent(request) /\ IsText(FirstValue(request)) =>
        LET hv == FirstValue(request)
            rejected == Failed /\ Kind = "Base64DecodeError"
        IN  /\ ~rejected => IsStandardBase64(hv)
            /\ (\E i \in 1..Len(hv) : hv[i] \in {45, 95}) => rejected
            /\ Len(hv) % 4 # 0 => rejected

\* A document in the URL-safe alphabet, with a symbol the standard one lacks.
C6_Witness ==
    /\ Returned
    /\ sent.how = "url_safe"
    /\ \E i \in 1..Len(FirstValue(request)) : FirstValue(request)[i] \in {45, 95}
    /\ Failed
    /\ Kind = "Base64DecodeError"

\* C7: a header value that is standard padded base64 of bytes that are not a
\* T (malformed or truncated JSON, a missing field, a field of the wrong type)
\* yields JsonDecodeError.
C7_JsonDecodeError ==
    /\ Returned /\ decoded # None /\ Failed => Kind = "JsonDecodeError"
    /\ Returned /\ sent.how \in {"truncated", "malformed", "missing_field", "wrong_type"} =>
          /\ IsStandardBase64(FirstValue(request))
          /\ Failed
          /\ Kind = "JsonDecodeError"

C7_Witness ==
    /\ Returned
    /\ sent.how = "missing_field"
    /\ IsStandardBase64(FirstValue(request))
    /\ Failed
    /\ Kind = "JsonDecodeError"

\* C9: the future from_request returns is complete when returned; its first
\* poll yields the result, and no poll ever answers Pending.
C9_NeverPending ==
    /\ future # None /\ polled = <<>> => future[1].state = "ready" /\ future[1].value # None
    /\ \A i \in 1..Len(polled) : polled[i].poll = "Ready" /\ polled[i].value # None
    /\ Len(polled) <= 1

C9_Witness ==
    /\ future # None
    /\ Len(polled) = 1
    /\ polled[1].poll = "Ready"
    /\ polled[1].value.ok

\* C10: an x-userinfo header that is present with an empty value is not a
\* missing header and not a base64 error: it decodes to zero bytes, and
\* those fail JSON deserialization, so the result is JsonDecodeError.
C10_EmptyValue ==
    Returned /\ ~Absent(request) /\ FirstValue(request) = <<>> =>
        /\ text = Some(<<>>)
        /\ decoded = Some(<<>>)
        /\ Failed
        /\ Kind = "JsonDecodeError"

C10_Witness ==
    /\ Returned
    /\ ~Absent(request)
    /\ FirstValue(request) = <<>>
    /\ decoded = Some(<<>>)
    /\ Kind = "JsonDecodeError"

(***************************************************************************)
(* Several requests in flight: extractions on them interleave freely and   *)
(* repeat.  Each call is one step: try_from neither suspends nor blocks.   *)
(***************************************************************************)
NumReq == 2             \* requests in flight

\* Requests that end in different ways: no header, not base64, JSON of the
\* wrong shape, and a well-formed one.
ServerSamples == {
    <<>>,
    Designated(Bytes("a-b")),
    Designated(Bytes("e30=")),
    Designated(BASE64_STANDARD_encode(SmallDoc))
}

PipelineIdle ==
    /\ sent = [how |-> "none", value |-> None]
    /\ request = <<>>
    /\ pc = "idle"
    /\ header = None
    /\ text = None
    /\ decoded = None
    /\ attempted = <<>>
    /\ outcome = None
    /\ response = None
    /\ payload = None
    /\ future = None
    /\ polled = <<>>

ServerInit ==
    /\ PipelineIdle
    /\ reqs \in [1..NumReq -> ServerSamples]
    /\ results = [r \in 1..NumReq |-> {}]
    /\ bound = [r \in 1..NumReq |-> None]

\* XUserInfo::try_from(&req), called directly on request r.
TryFrom(r) ==
    /\ results' = [results EXCEPT ![r] = @ \cup {try_from(reqs[r])}]
    /\ UNCHANGED <<pipelineVars, reqs, bound>>

\* XUserInfo::from_request(&req, &mut payload) on request r: a new future each time.
Bind(r) ==
    /\ bound' = [bound EXCEPT ![r] = Some(from_request(reqs[r], "None"))]
    /\ UNCHANGED <<pipelineVars, reqs, results>>

\* The future bound for request r is polled; a Ready answer carries the result.
Await(r) ==
    /\ bound[r] # None
    /\ bound[r][1].state # "done"
    /\ LET p == poll(bound[r][1])
       IN  /\ results' = [results EXCEPT ![r] = @ \cup
                              (IF p.out.poll = "Ready" THEN {p.out.value} ELSE {})]
           /\ bound' = [bound EXCEPT ![r] = Some(p.fut)]
    /\ UNCHANGED <<pipelineVars, reqs>>

ServerNext ==
    \E r \in 1..NumReq :
        \/ TryFrom(r)
        \/ Bind(r)
        \/ Await(r)

ServerSpec == ServerInit /\ [][ServerNext]_vars

\* Every result request r has shown: those returned, and the one its future holds.
Shown(r) ==
    results[r] \cup (IF bound[r] # None /\ bound[r][1].state # "done"
                     THEN {bound[r][1].value[1]} ELSE {})

====
